---- MODULE Spec2Model ----
(***************************************************************************)
(* Fridge_react backend: backend/server.js (Express + node-postgres) over  *)
(* the table fridge_items of server.js:44-51 and init.sql.                 *)
(*                                                                         *)
(* A JavaScript / SQL text value is a sequence of one-character strings.   *)
(* A JSON value of a request body is a record [t, v]: t is the JSON type   *)
(* ("undef" for an absent key) and v the value (v = 0 where the type has   *)
(* none).  A handler is split where its code awaits pool.query: Recv* is   *)
(* the code before the await, Exec* the statement inside PostgreSQL        *)
(* together with the code after the await.                                 *)
(***************************************************************************)
EXTENDS Integers, Sequences, FiniteSets, TLC

VARIABLES
    pc,           \* position of initializeApp / checkConnection
    retries,      \* checkConnection: let retries (0 once checkConnection returned)
    tableExists,  \* relation fridge_items exists in the database
    table,        \* rows of fridge_items
    seq,          \* last value of the sequence behind id SERIAL
    now,          \* CURRENT_TIMESTAMP of the latest INSERT
    pending,      \* per client: idle, or its handler awaiting pool.query
    last,         \* the response the server sent last
    received,     \* number of item requests the server has accepted
    budget,       \* number of item requests the clients send in this behaviour
    deleted,      \* history: ids whose DELETE answered 200
    toggleRun,    \* history: per id, the run of toggles since the row was created
    race          \* history: a toggle and a delete in flight on one existing id

vars == <<pc, retries, tableExists, table, seq, now, pending, last,
          received, budget,
          deleted, toggleRun, race>>

-----------------------------------------------------------------------------
(* Bounds of the model *)

\* item requests sent to a server that started on a new database
MaxReqs == 3

\* item requests sent to a server that started on the database of init.sql
MaxSeedReqs == 2

Clients == {"c1", "c2"}

-----------------------------------------------------------------------------
(* Text values *)

\* "NUL" stands for the character U+0000, which a JSON string can carry
\* (\u0000) and PostgreSQL text cannot.
NUL == "NUL"

\* String.prototype.trim strips WhiteSpace and LineTerminator code points;
\* two of them are in the alphabet of the model.
IsJsSpace(ch) == ch \in {" ", "\t"}

RECURSIVE TrimStart(_)
TrimStart(s) ==
    IF s = <<>> THEN s
    ELSE IF IsJsSpace(Head(s)) THEN TrimStart(Tail(s))
    ELSE s

RECURSIVE TrimEnd(_)
TrimEnd(s) ==
    IF s = <<>> THEN s
    ELSE IF IsJsSpace(s[Len(s)]) THEN TrimEnd(SubSeq(s, 1, Len(s) - 1))
    ELSE s

\* name.trim()
Trim(s) == TrimEnd(TrimStart(s))

Rep(ch, n) == [i \in 1..n |-> ch]

Digits == <<"0", "1", "2", "3", "4", "5", "6", "7", "8", "9">>

IsDigit(ch) == \E d \in 1..10 : Digits[d] = ch

DigitVal(ch) == (CHOOSE d \in 1..10 : Digits[d] = ch) - 1

\* decimal text of a natural number: the id in a request path, Number.toString
RECURSIVE Dec(_)
Dec(n) == IF n < 10 THEN <<Digits[n + 1]>> ELSE Dec(n \div 10) \o <<Digits[(n % 10) + 1]>>

RECURSIVE DecVal(_)
DecVal(s) == IF s = <<>> THEN 0 ELSE 10 * DecVal(SubSeq(s, 1, Len(s) - 1)) + DigitVal(s[Len(s)])

-----------------------------------------------------------------------------
(* JSON values of a request body *)

Undef == [t |-> "undef", v |-> 0]
Null == [t |-> "null", v |-> 0]
Bool(b) == [t |-> "bool", v |-> b]
Num(n) == [t |-> "num", v |-> n]
Str(s) == [t |-> "str", v |-> s]

-----------------------------------------------------------------------------
(* PostgreSQL: the schema of createTable and the input conversions of the  *)
(* statement parameters, which node-postgres sends as text                 *)

\* name VARCHAR(255)
VarcharLen == 255

\* id SERIAL is a 4-byte integer column
Int4Max == 2147483647

\* the decimal digits of Int4Max + 1
OverInt4 == <<"2", "1", "4", "7", "4", "8", "3", "6", "4", "8">>

PgErr(m) == [ok |-> FALSE, v |-> 0, msg |-> m]
PgOk(x) == [ok |-> TRUE, v |-> x, msg |-> ""]

IsPgSpace(ch) == ch \in {" ", "\t"}

RECURSIVE PgSkipStart(_)
PgSkipStart(s) ==
    IF s # <<>> /\ IsPgSpace(Head(s)) THEN PgSkipStart(Tail(s)) ELSE s

RECURSIVE PgSkipEnd(_)
PgSkipEnd(s) ==
    IF s # <<>> /\ IsPgSpace(s[Len(s)]) THEN PgSkipEnd(SubSeq(s, 1, Len(s) - 1)) ELSE s

RECURSIVE SkipZeros(_)
SkipZeros(d) == IF Len(d) > 1 /\ Head(d) = "0" THEN SkipZeros(Tail(d)) ELSE d

\* whether the digit sequence a denotes a larger number than b (neither has
\* leading zeros); the digits are compared, for a value outside int4 is not
\* a number the model can compute with
RECURSIVE DigitsGreater(_, _)
DigitsGreater(a, b) ==
    IF Len(a) # Len(b) THEN Len(a) > Len(b)
    ELSE IF a = <<>> THEN FALSE
    ELSE IF Head(a) # Head(b) THEN DigitVal(Head(a)) > DigitVal(Head(b))
    ELSE DigitsGreater(Tail(a), Tail(b))

\* integer input of "WHERE id = $1": optional blanks, optional sign, decimal
\* digits, optional blanks; anything else, or a value outside int4, is an error
PgInt4In(s) ==
    LET b == PgSkipEnd(PgSkipStart(s))
        signed == b # <<>> /\ Head(b) \in {"-", "+"}
        neg == signed /\ Head(b) = "-"
        d == IF signed THEN Tail(b) ELSE b
        m == SkipZeros(d)
    IN  IF d = <<>> \/ \E i \in 1..Len(d) : ~IsDigit(d[i])
        THEN PgErr("invalid input syntax for type integer")
        ELSE IF ~DigitsGreater(m, Dec(Int4Max))
        THEN PgOk(IF neg THEN 0 - DecVal(m) ELSE DecVal(m))
        ELSE IF neg /\ ~DigitsGreater(m, OverInt4)
        THEN PgOk(0 - Int4Max - 1)
        ELSE PgErr("value out of range for type integer")

PgTrueLits == { <<"t">>, <<"t","r">>, <<"t","r","u">>, <<"t","r","u","e">>,
                <<"y">>, <<"y","e">>, <<"y","e","s">>, <<"o","n">>, <<"1">> }

PgFalseLits == { <<"f">>, <<"f","a">>, <<"f","a","l">>, <<"f","a","l","s">>,
                 <<"f","a","l","s","e">>, <<"n">>, <<"n","o">>,
                 <<"o","f">>, <<"o","f","f">>, <<"0">> }

\* boolean input of the is_in_fridge parameter (the letters of the model are
\* lower case; PostgreSQL ignores case)
PgBoolIn(s) ==
    LET b == PgSkipEnd(PgSkipStart(s))
    IN  IF b \in PgTrueLits THEN PgOk(TRUE)
        ELSE IF b \in PgFalseLits THEN PgOk(FALSE)
        ELSE PgErr("invalid input syntax for type boolean")

\* node-postgres prepareValue: the text sent for a JavaScript parameter
PgText(j) ==
    IF j.t = "bool" THEN (IF j.v THEN <<"t","r","u","e">> ELSE <<"f","a","l","s","e">>)
    ELSE IF j.t = "num" THEN Dec(j.v)
    ELSE j.v

\* text input of the name parameter: U+0000 is no character of a text value;
\* a value longer than the column is an error (after name.trim() it cannot
\* end in the blanks PostgreSQL would cut off)
PgVarcharIn(s) ==
    IF \E i \in 1..Len(s) : s[i] = NUL
    THEN PgErr("invalid byte sequence for encoding UTF8: 0x00")
    ELSE IF Len(s) > VarcharLen
    THEN PgErr("value too long for type character varying(255)")
    ELSE PgOk(s)

-----------------------------------------------------------------------------
(* Rows and statements.  A statement result is [ok, msg, rows, table, seq]: *)
(* ok and msg are what pool.query resolves or rejects with, rows is         *)
(* result.rows, table and seq are the database after the statement.         *)

Row(i, n, f, ts) == [id |-> i, name |-> n, is_in_fridge |-> f, created_at |-> ts]

Ids(tbl) == {r.id : r \in tbl}

RECURSIVE SetToSeq(_)
SetToSeq(S) ==
    IF S = {} THEN <<>>
    ELSE LET x == CHOOSE y \in S : TRUE IN <<x>> \o SetToSeq(S \ {x})

Rejected(m, tbl, sq) == [ok |-> FALSE, msg |-> m, rows |-> <<>>, table |-> tbl, seq |-> sq]

Resolved(rs, tbl, sq) == [ok |-> TRUE, msg |-> "", rows |-> rs, table |-> tbl, seq |-> sq]

\* mutant: the id is MAX(id) + 1 instead of a value of the sequence
NextValMax(tbl, sq) ==
    IF tbl = {} THEN 1 ELSE (CHOOSE i \in Ids(tbl) : \A j \in Ids(tbl) : j <= i) + 1

\* mutant: the id is COUNT(*) + 1 instead of a value of the sequence
NextValCount(tbl, sq) == Cardinality(tbl) + 1

\* the id a row gets from "id SERIAL": nextval of the sequence
NextVal(tbl, sq) == sq + 1

\* INSERT INTO fridge_items (name, is_in_fridge) VALUES ($1, $2) RETURNING *
\* burn: whether the sequence was advanced before an over-long name was
\* rejected (it depends on whether the length check runs in the planner)
SqlInsert(tbl, sq, ts, nameText, flagText, burn) ==
    LET f == PgBoolIn(flagText)
        n == PgVarcharIn(nameText)
        r == Row(NextVal(tbl, sq), n.v, f.v, ts)
    IN  IF \E i \in 1..Len(nameText) : nameText[i] = NUL THEN Rejected(n.msg, tbl, sq)
        ELSE IF ~f.ok THEN Rejected(f.msg, tbl, sq)
        ELSE IF ~n.ok THEN Rejected(n.msg, tbl, IF burn THEN sq + 1 ELSE sq)
        ELSE Resolved(<<r>>, tbl \cup {r}, sq + 1)

\* mutant: SET is_in_fridge = false
FlipOff(r) == [r EXCEPT !.is_in_fridge = FALSE]

\* SET is_in_fridge = NOT is_in_fridge
Flip(r) == [r EXCEPT !.is_in_fridge = ~r.is_in_fridge]

\* mutant: the UPDATE without its WHERE clause
SqlToggleAll(tbl, sq, idText) ==
    LET i == PgInt4In(idText)
        new == {Flip(r) : r \in tbl}
    IN  IF ~i.ok THEN Rejected(i.msg, tbl, sq)
        ELSE Resolved(SetToSeq(new), new, sq)

\* UPDATE fridge_items SET is_in_fridge = NOT is_in_fridge WHERE id = $1 RETURNING *
SqlToggle(tbl, sq, idText) ==
    LET i == PgInt4In(idText)
        hit == {r \in tbl : r.id = i.v}
        new == {Flip(r) : r \in hit}
    IN  IF ~i.ok THEN Rejected(i.msg, tbl, sq)
        ELSE Resolved(SetToSeq(new), (tbl \ hit) \cup new, sq)

\* DELETE FROM fridge_items WHERE id = $1 RETURNING *
SqlDelete(tbl, sq, idText) ==
    LET i == PgInt4In(idText)
        hit == {r \in tbl : r.id = i.v}
    IN  IF ~i.ok THEN Rejected(i.msg, tbl, sq)
        ELSE Resolved(SetToSeq(hit), tbl \ hit, sq)

\* mutant: ORDER BY created_at ASC
BeforeAsc(a, b) == a.created_at <= b.created_at

\* ORDER BY created_at DESC: whether row a may come directly before row b
Before(a, b) == a.created_at >= b.created_at

\* every sequence of all rows of tbl in an order the ORDER BY allows
RECURSIVE Orderings(_)
Orderings(tbl) ==
    IF tbl = {} THEN {<<>>}
    ELSE UNION { {<<r>> \o rest : rest \in Orderings(tbl \ {r})} :
                 r \in {x \in tbl : \A y \in tbl : Before(x, y)} }

\* what pool.query gives when the statement does not run: the connection
\* fails (down) or, the server having started without its table, the
\* relation is missing
Query(down, exists, res, tbl, sq) ==
    IF down THEN Rejected("connect ECONNREFUSED", tbl, sq)
    ELSE IF ~exists THEN Rejected("relation fridge_items does not exist", tbl, sq)
    ELSE res

-----------------------------------------------------------------------------
(* Responses: [st, op, status, rows, error, details]; rows holds the row(s) *)
(* of the body (the created, updated or deleted item, or the list).         *)

Response(op, status, rows, error, details) ==
    [st |-> "resp", op |-> op, status |-> status, rows |-> rows,
     error |-> error, details |-> details]

DatabaseError(op, res) == Response(op, 500, <<>>, "Database error", res.msg)

\* app.post('/api/items'), after the await
PostResponse(res) ==
    IF ~res.ok THEN DatabaseError("POST", res)
    ELSE Response("POST", 201, <<res.rows[1]>>, "", "")

\* mutant: no test of result.rows.length, an update of no row answers 200
ToggleResponseNoCheck(res) ==
    IF ~res.ok THEN DatabaseError("PATCH", res)
    ELSE Response("PATCH", 200, res.rows, "", "")

\* app.patch('/api/items/:id/toggle'), after the await
ToggleResponse(res) ==
    IF ~res.ok THEN DatabaseError("PATCH", res)
    ELSE IF Len(res.rows) = 0 THEN Response("PATCH", 404, <<>>, "Item not found", "")
    ELSE Response("PATCH", 200, <<res.rows[1]>>, "", "")

\* app.delete('/api/items/:id'), after the await
DeleteResponse(res) ==
    IF ~res.ok THEN DatabaseError("DELETE", res)
    ELSE IF Len(res.rows) = 0 THEN Response("DELETE", 404, <<>>, "Item not found", "")
    ELSE Response("DELETE", 200, <<res.rows[1]>>, "", "")

\* app.get('/api/items'), after the await
GetResponse(res) ==
    IF ~res.ok THEN DatabaseError("GET", res)
    ELSE Response("GET", 200, res.rows, "", "")

Idle == [st |-> "idle"]

NoResponse == [st |-> "none"]

\* a handler suspended at "await pool.query": the route, req.body and
\* req.params.id of its request
Waiting(op, body, id) == [st |-> "wait", op |-> op, body |-> body, id |-> id]

-----------------------------------------------------------------------------
(* Handlers, before the await *)

NoBody == [name |-> Undef, isInFridge |-> Undef]

\* mutant: !name, the test without the trim
NameIsBlankNoTrim(name) ==
    \/ name.t \in {"undef", "null"}
    \/ name.t = "str" /\ name.v = <<>>

\* !name?.trim(): name is missing or null, or trims to the empty string
NameIsBlank(name) ==
    \/ name.t \in {"undef", "null"}
    \/ name.t = "str" /\ Trim(name.v) = <<>>

\* mutant: isInFridge || true, which turns every falsy value into true
PostParamsOr(body) ==
    [name |-> Trim(body.name.v),
     flag |-> IF \/ body.isInFridge.t \in {"undef", "null"}
                 \/ body.isInFridge = Bool(FALSE)
                 \/ body.isInFridge = Num(0)
              THEN Bool(TRUE)
              ELSE body.isInFridge]

\* the parameters [name.trim(), isInFridge ?? true]
PostParams(body) ==
    [name |-> Trim(body.name.v),
     flag |-> IF body.isInFridge.t \in {"undef", "null"} THEN Bool(TRUE)
              ELSE body.isInFridge]

\* app.post('/api/items') up to the await: calling trim on a name that is
\* neither a string nor null/undefined throws a TypeError, caught as a 500
PostHandler(body) ==
    IF body.name.t \notin {"undef", "null", "str"}
    THEN Response("POST", 500, <<>>, "Database error", "name?.trim is not a function")
    ELSE IF NameIsBlank(body.name)
    THEN Response("POST", 400, <<>>, "Name is required", "")
    ELSE Waiting("POST", body, <<>>)

-----------------------------------------------------------------------------
(* Requests *)

BlankName == <<" ", "\t">>
PaddedName == <<" ", "a", " ", "b", "\t">>
LongestName == <<" ">> \o Rep("a", VarcharLen)
TooLongName == Rep("a", VarcharLen + 1)
NulName == <<"a", NUL>>

NameInputs ==
    { Undef, Null, Num(5), Str(<<>>), Str(BlankName), Str(PaddedName),
      Str(LongestName), Str(TooLongName), Str(NulName) }

FlagInputs == { Undef, Null, Bool(TRUE), Bool(FALSE), Num(0), Str(<<"a", "b", "c">>) }

PostBodies ==
    {[name |-> n, isInFridge |-> Undef] : n \in NameInputs}
    \cup {[name |-> Str(PaddedName), isInFridge |-> f] : f \in FlagInputs}

\* the id of a path: the decimal text of every id the sequence has given out
\* and of the next one, an id with a leading zero, and texts that are no int4
IdParams(sq) ==
    {Dec(i) : i \in 1..(sq + 1)}
    \cup { <<"0", "1">>, <<"a", "b", "c">>, OverInt4 }

-----------------------------------------------------------------------------
(* init.sql: the six seed rows of one INSERT statement (the names in Latin  *)
(* letters), all with the CURRENT_TIMESTAMP of that statement               *)

SeedRows ==
    { Row(1, <<"M","o","l","o","k","o">>, TRUE, 0),
      Row(2, <<"Y","a","j","c","a">>, TRUE, 0),
      Row(3, <<"H","l","e","b">>, FALSE, 0),
      Row(4, <<"S","y","r">>, TRUE, 0),
      Row(5, <<"P","o","m","i","d","o","r","y">>, TRUE, 0),
      Row(6, <<"K","u","r","i","c","a">>, TRUE, 0) }

-----------------------------------------------------------------------------
(* History variables *)

NoRace == [ph |-> "none"]

NoOutcome == [status |-> 0, flag |-> FALSE]

Outcome(resp) ==
    [status |-> resp.status,
     flag |-> IF Len(resp.rows) > 0 THEN resp.rows[1].is_in_fridge ELSE FALSE]

\* race after client c sent a toggle or a delete (op) on idText: a race on
\* that id is void; a race opens when the other request on the same existing
\* id is in flight
RaceOnRecv(c, op, idText) ==
    LET i == PgInt4In(idText)
        other == IF op = "PATCH" THEN "DELETE" ELSE "PATCH"
        peers == {d \in Clients \ {c} :
                    /\ pending[d].st = "wait" /\ pending[d].op = other
                    /\ PgInt4In(pending[d].id).ok /\ PgInt4In(pending[d].id).v = i.v}
        rows == {r \in table : r.id = i.v}
    IN  IF ~i.ok THEN race
        ELSE IF race.ph = "open" /\ race.id = i.v THEN NoRace
        ELSE IF race.ph # "open" /\ tableExists /\ rows # {} /\ peers # {}
        THEN LET d == CHOOSE x \in peers : TRUE
                 r == CHOOSE x \in rows : TRUE
             IN  [ph |-> "open", id |-> i.v, orig |-> r.is_in_fridge,
                  tc |-> IF op = "PATCH" THEN c ELSE d,
                  dc |-> IF op = "PATCH" THEN d ELSE c,
                  tog |-> NoOutcome, del |-> NoOutcome, first |-> "none"]
        ELSE race

\* race after client c got resp for its statement
RaceOnExec(c, resp) ==
    LET isTog == race.tc = c /\ race.tog = NoOutcome /\ resp.op = "PATCH"
        isDel == race.dc = c /\ race.del = NoOutcome /\ resp.op = "DELETE"
        rec == IF isTog THEN [race EXCEPT !.tog = Outcome(resp)]
               ELSE [race EXCEPT !.del = Outcome(resp)]
        fst == IF race.first # "none" THEN race.first
               ELSE IF isTog THEN "toggle" ELSE "delete"
    IN  IF race.ph # "open" THEN race
        ELSE IF ~(isTog \/ isDel) THEN race
        ELSE IF resp.status = 500 THEN NoRace
        ELSE [rec EXCEPT !.first = fst,
                         !.ph = IF rec.tog # NoOutcome /\ rec.del # NoOutcome
                                THEN "done" ELSE "open"]

\* toggleRun after a toggle answered 200 for the row old
RunOnToggle(old) ==
    LET cur == {e \in toggleRun : e.id = old.id}
    IN  IF \E e \in cur : e.n = 1
        THEN (toggleRun \ cur) \cup {[e EXCEPT !.n = 2] : e \in cur}
        ELSE (toggleRun \ cur) \cup {[id |-> old.id, orig |-> old.is_in_fridge, n |-> 1]}

-----------------------------------------------------------------------------
(* Startup: initializeApp, checkConnection, createTable *)

\* let retries = 5
RetryCount == 5

InitServer ==
    /\ pc = "probe"
    /\ retries = RetryCount
    /\ pending = [c \in Clients |-> Idle]
    /\ last = NoResponse
    /\ received = 0
    /\ deleted = {}
    /\ toggleRun = {}
    /\ race = NoRace

\* the server starts on a new database: no table yet
Init ==
    /\ InitServer
    /\ tableExists = FALSE /\ table = {} /\ seq = 0 /\ now = 0
    /\ budget = MaxReqs

\* the server starts on a database that init.sql has initialised
InitSeeded ==
    /\ InitServer
    /\ tableExists = TRUE /\ table = SeedRows /\ seq = Cardinality(SeedRows) /\ now = 0
    /\ budget = MaxSeedReqs

db == <<tableExists, table, seq, now>>
http == <<pending, last, received, budget>>
history == <<deleted, toggleRun, race>>

\* await pool.query('SELECT NOW()') resolves: break; checkConnection returns
\* and its local retries is gone (0 stands for that)
ProbeOk ==
    /\ pc = "probe"
    /\ pc' = "create"
    /\ retries' = 0
    /\ UNCHANGED <<db, http, history>>

\* the query rejects: retries -= 1, then the 5 second timer
ProbeFail ==
    /\ pc = "probe"
    /\ retries' = retries - 1
    /\ pc' = "sleep"
    /\ UNCHANGED <<db, http, history>>

\* the timer fires: while (retries)
Sleep ==
    /\ pc = "sleep"
    /\ pc' = IF retries # 0 THEN "probe" ELSE "create"
    /\ UNCHANGED <<retries, db, http, history>>

\* mutant: createTable without its try/catch; initializeApp rejects and the
\* process exits
CreateTableThrows(down) ==
    /\ pc = "create"
    /\ tableExists' = (tableExists \/ ~down)
    /\ pc' = IF down THEN "exited" ELSE "listen"
    /\ UNCHANGED <<retries, table, seq, now, http, history>>

\* createTable: CREATE TABLE IF NOT EXISTS; an error is logged and swallowed
CreateTable(down) ==
    /\ pc = "create"
    /\ tableExists' = (tableExists \/ ~down)
    /\ pc' = "listen"
    /\ UNCHANGED <<retries, table, seq, now, http, history>>

\* app.listen
Listen ==
    /\ pc = "listen"
    /\ pc' = "serving"
    /\ UNCHANGED <<retries, db, http, history>>

Startup == ProbeOk \/ ProbeFail \/ Sleep \/ (\E down \in BOOLEAN : CreateTable(down)) \/ Listen

-----------------------------------------------------------------------------
(* Requests: a client sends one request at a time *)

CanSend(c) == pc = "serving" /\ pending[c].st # "wait" /\ received < budget

\* CURRENT_TIMESTAMP of a statement of the running server: the time of the
\* latest INSERT or later, and later than time 0, when the server started
Clock == {now, now + 1} \ {0}

RecvPost(c, body) ==
    /\ CanSend(c)
    /\ LET h == PostHandler(body)
       IN  IF h.st = "wait"
           THEN pending' = [pending EXCEPT ![c] = h] /\ last' = last
           ELSE pending' = pending /\ last' = h
    /\ received' = received + 1
    /\ UNCHANGED <<pc, retries, db, budget, history>>

RecvToggle(c, idText) ==
    /\ CanSend(c)
    /\ pending' = [pending EXCEPT ![c] = Waiting("PATCH", NoBody, idText)]
    /\ received' = received + 1
    /\ race' = RaceOnRecv(c, "PATCH", idText)
    /\ UNCHANGED <<pc, retries, db, last, budget, deleted, toggleRun>>

RecvDelete(c, idText) ==
    /\ CanSend(c)
    /\ pending' = [pending EXCEPT ![c] = Waiting("DELETE", NoBody, idText)]
    /\ received' = received + 1
    /\ race' = RaceOnRecv(c, "DELETE", idText)
    /\ UNCHANGED <<pc, retries, db, last, budget, deleted, toggleRun>>

RecvGet(c) ==
    /\ CanSend(c)
    /\ pending' = [pending EXCEPT ![c] = Waiting("GET", NoBody, <<>>)]
    /\ received' = received + 1
    /\ UNCHANGED <<pc, retries, db, last, budget, history>>

\* the INSERT of a suspended POST runs (or fails: down) at a clock value ts
ExecPost(c, down, ts, burn) ==
    /\ pending[c].st = "wait" /\ pending[c].op = "POST"
    /\ LET p == PostParams(pending[c].body)
           res == Query(down, tableExists,
                        SqlInsert(table, seq, ts, p.name, PgText(p.flag), burn),
                        table, seq)
       IN  /\ table' = res.table
           /\ seq' = res.seq
           /\ now' = IF res.ok THEN ts ELSE now
           /\ last' = PostResponse(res)
    /\ pending' = [pending EXCEPT ![c] = Idle]
    /\ UNCHANGED <<pc, retries, tableExists, received, budget, history>>

ExecToggle(c, down) ==
    /\ pending[c].st = "wait" /\ pending[c].op = "PATCH"
    /\ LET res == Query(down, tableExists, SqlToggle(table, seq, pending[c].id), table, seq)
           resp == ToggleResponse(res)
       IN  /\ table' = res.table
           /\ last' = resp
           /\ race' = RaceOnExec(c, resp)
           /\ toggleRun' = IF resp.status = 200 /\ resp.rows # <<>>
                           THEN RunOnToggle(CHOOSE r \in table : r.id = resp.rows[1].id)
                           ELSE toggleRun
    /\ pending' = [pending EXCEPT ![c] = Idle]
    /\ UNCHANGED <<pc, retries, tableExists, seq, now, received, budget, deleted>>

ExecDelete(c, down) ==
    /\ pending[c].st = "wait" /\ pending[c].op = "DELETE"
    /\ LET res == Query(down, tableExists, SqlDelete(table, seq, pending[c].id), table, seq)
           resp == DeleteResponse(res)
           gone == IF resp.status = 200 THEN {resp.rows[1].id} ELSE {}
       IN  /\ table' = res.table
           /\ last' = resp
           /\ race' = RaceOnExec(c, resp)
           /\ deleted' = deleted \cup gone
           /\ toggleRun' = {e \in toggleRun : e.id \notin gone}
    /\ pending' = [pending EXCEPT ![c] = Idle]
    /\ UNCHANGED <<pc, retries, tableExists, seq, now, received, budget>>

\* SELECT * FROM fridge_items ORDER BY created_at DESC: rows is one of the
\* orders the statement may return
ExecGet(c, down, rows) ==
    /\ pending[c].st = "wait" /\ pending[c].op = "GET"
    /\ LET res == Query(down, tableExists, Resolved(rows, table, seq), table, seq)
       IN  last' = GetResponse(res)
    /\ pending' = [pending EXCEPT ![c] = Idle]
    /\ UNCHANGED <<pc, retries, db, received, budget, history>>

Recv(c) ==
    \/ \E body \in PostBodies : RecvPost(c, body)
    \/ \E idText \in IdParams(seq) : RecvToggle(c, idText)
    \/ \E idText \in IdParams(seq) : RecvDelete(c, idText)
    \/ RecvGet(c)

Exec(c) ==
    \/ \E down \in BOOLEAN, ts \in Clock, burn \in BOOLEAN : ExecPost(c, down, ts, burn)
    \/ \E down \in BOOLEAN : ExecToggle(c, down)
    \/ \E down \in BOOLEAN : ExecDelete(c, down)
    \/ \E down \in BOOLEAN, rows \in Orderings(table) : ExecGet(c, down, rows)

Next == Startup \/ (\E c \in Clients : Recv(c)) \/ (\E c \in Clients : Exec(c))

Spec == Init /\ [][Next]_vars

\* The event loop runs a continuation once its promise has settled or its
\* timer has fired, and pool.query settles (a connection attempt times out
\* after connectionTimeoutMillis): a startup step that can be taken is taken.
FairSpec == Spec /\ WF_vars(Startup)

\* the requests that write, sent to a server on the database of init.sql
RecvWrite(c) ==
    \/ \E body \in PostBodies : RecvPost(c, body)
    \/ \E idText \in IdParams(seq) : RecvToggle(c, idText)
    \/ \E idText \in IdParams(seq) : RecvDelete(c, idText)

ExecWrite(c) ==
    \/ \E down \in BOOLEAN, ts \in Clock, burn \in BOOLEAN : ExecPost(c, down, ts, burn)
    \/ \E down \in BOOLEAN : ExecToggle(c, down)
    \/ \E down \in BOOLEAN : ExecDelete(c, down)

NextWrites == Startup \/ (\E c \in Clients : RecvWrite(c)) \/ (\E c \in Clients : ExecWrite(c))

SeedSpec == InitSeeded /\ [][NextWrites]_vars

-----------------------------------------------------------------------------
(* Properties.  A claim about the answer to a request is read for a request *)
(* whose statement ran against the table: a statement that did not run (no  *)
(* connection, or no table because createTable failed at startup) answers   *)
(* 500 "Database error" on every route and changes nothing.                 *)

Is(resp, op, status) == resp.st = "resp" /\ resp.op = op /\ resp.status = status

\* the step in which the handler of client c gets its query result and answers
Answered(c) == pending[c].st = "wait" /\ pending'[c].st = "idle"

StatementRan(resp) ==
    ~(resp.status = 500 /\ resp.details \in
        {"connect ECONNREFUSED", "relation fridge_items does not exist"})

IsBlankChar(ch) == ch \in {" ", "\t"}

AllBlank(s) == \A i \in 1..Len(s) : IsBlankChar(s[i])

\* the positions of the first and the last character of s that is no blank
FirstInk(s) == CHOOSE i \in 1..Len(s) : ~IsBlankChar(s[i]) /\ \A j \in 1..(i - 1) : IsBlankChar(s[j])

LastInk(s) == CHOOSE i \in 1..Len(s) : ~IsBlankChar(s[i]) /\ \A j \in (i + 1)..Len(s) : IsBlankChar(s[j])

\* s, which is not all blanks, without its leading and trailing blanks
Trimmed(s) == SubSeq(s, FirstInk(s), LastInk(s))

\* the row of tbl the path text names: the row whose id is the number it denotes
Named(tbl, idText) == {r \in tbl : PgInt4In(idText).ok /\ r.id = PgInt4In(idText).v}

-----------------------------------------------------------------------------
(* C1 *)

C1_Pre(c) ==
    /\ Answered(c) /\ pending[c].op = "POST" /\ StatementRan(last')
    /\ pending[c].body.name.t = "str" /\ ~AllBlank(pending[c].body.name.v)
    /\ pending[c].body.isInFridge.t \in {"undef", "null", "bool"}

C1_Requested(flag) == IF flag.t = "bool" THEN flag.v ELSE TRUE

\* 201, and the table (hence every list GET can return) has exactly one new
\* row: the trimmed name, the requested flag, an id no row had
C1_Created(c) ==
    /\ Is(last', "POST", 201)
    /\ \E r \in table' :
          /\ r \notin table /\ table' = table \cup {r}
          /\ r.id \notin Ids(table)
          /\ r.name = Trimmed(pending[c].body.name.v)
          /\ r.is_in_fridge = C1_Requested(pending[c].body.isInFridge)
          /\ last'.rows = <<r>>
          /\ \A o \in Orderings(table') : {o[i] : i \in 1..Len(o)} \ table = {r}

C1_Fits(c) ==
    LET s == pending[c].body.name.v
    IN  (\A i \in 1..Len(s) : s[i] # NUL) /\ Len(Trimmed(s)) <= VarcharLen

\* C1 as stated: for every name that is non-empty after trimming, POST
\* /api/items answers 201 and the table has exactly one new row, with the
\* trimmed name and the requested isInFridge (true when absent or null).
C1_Original == [][\A c \in Clients : C1_Pre(c) => C1_Created(c)]_vars

\* C1 as amended: that holds for every name that after trimming is non-empty,
\* at most 255 characters long and without U+0000; for any other name that is
\* non-empty after trimming the POST answers 500 and the table is unchanged.
C1_Amended ==
    [][\A c \in Clients : C1_Pre(c) =>
          IF C1_Fits(c) THEN C1_Created(c)
          ELSE Is(last', "POST", 500) /\ table' = table]_vars

\* a name of 255 characters after trimming was stored
C1_Witness ==
    /\ Is(last, "POST", 201)
    /\ Len(last.rows[1].name) = VarcharLen
    /\ last.rows[1] \in table

-----------------------------------------------------------------------------
(* C2 *)

C2_Blank(name) == name.t \in {"undef", "null"} \/ (name.t = "str" /\ AllBlank(name.v))

\* C2: a POST /api/items whose name is empty, blank or missing answers 400,
\* issues no statement and leaves the table as it was.
C2_BlankNameRejected ==
    [][\A c \in Clients, body \in PostBodies :
          (C2_Blank(body.name) /\ RecvPost(c, body)) =>
              /\ Is(last', "POST", 400)
              /\ table' = table /\ seq' = seq
              /\ pending' = pending]_vars

C2_Witness == Is(last, "POST", 400) /\ last.error = "Name is required"

-----------------------------------------------------------------------------
(* C3 *)

C3_Runs ==
    \A e \in toggleRun :
        \E r \in table :
            /\ r.id = e.id
            /\ e.n = 1 => r.is_in_fridge # e.orig
            /\ e.n = 2 => r.is_in_fridge = e.orig

C3_Step ==
    \A c \in Clients :
        (/\ Answered(c) /\ pending[c].op = "PATCH" /\ StatementRan(last')
         /\ Named(table, pending[c].id) # {}) =>
            \E r \in Named(table, pending[c].id) :
                /\ Is(last', "PATCH", 200)
                /\ Len(last'.rows) = 1
                /\ last'.rows[1].id = r.id
                /\ last'.rows[1].is_in_fridge = ~r.is_in_fridge
                /\ last'.rows[1] \in table'

\* C3: a toggle of an existing id answers 200 with the row, its is_in_fridge
\* negated; after one toggle the flag differs from what it was, after two
\* toggles of the same id it is what it was.
C3_ToggleTwice == [](C3_Runs) /\ [][C3_Step]_vars

C3_Witness == Is(last, "PATCH", 200) /\ \E e \in toggleRun : e.n = 2

-----------------------------------------------------------------------------
(* C4 *)

\* C4 as stated: a toggle or a delete whose id names no row answers 404,
\* whatever the text of the id is, and leaves the table unchanged.
C4_NotFound ==
    [][\A c \in Clients :
          (/\ Answered(c) /\ pending[c].op \in {"PATCH", "DELETE"}
           /\ StatementRan(last')
           /\ Named(table, pending[c].id) = {}) =>
              (last'.status = 404 /\ table' = table)]_vars

-----------------------------------------------------------------------------
(* C5 *)

C5_Get ==
    \A c \in Clients :
        (Answered(c) /\ pending[c].op = "GET" /\ last'.status = 200) =>
            \A i \in 1..Len(last'.rows) : last'.rows[i].id \notin deleted

C5_Delete ==
    \A c \in Clients :
        (/\ Answered(c) /\ pending[c].op = "DELETE" /\ StatementRan(last')
         /\ PgInt4In(pending[c].id).ok /\ PgInt4In(pending[c].id).v \in deleted) =>
            Is(last', "DELETE", 404)

\* C5: once a DELETE of an id answered 200, no row has that id again (a later
\* POST gets another id), no GET lists it and every DELETE of it answers 404.
C5_DeletedStaysGone ==
    [](Ids(table) \cap deleted = {}) /\ [][C5_Get /\ C5_Delete]_vars

C5_Witness == deleted # {} /\ Is(last, "GET", 200)

-----------------------------------------------------------------------------
(* C6 *)

\* C6: a GET that answers 200 lists every row of the table once, and no row
\* comes before a row with a later created_at.
C6_Ordered ==
    [][\A c \in Clients :
          (Answered(c) /\ pending[c].op = "GET" /\ last'.status = 200) =>
              /\ Len(last'.rows) = Cardinality(table)
              /\ {last'.rows[i] : i \in 1..Len(last'.rows)} = table
              /\ \A i \in 1..(Len(last'.rows) - 1) :
                    last'.rows[i].created_at >= last'.rows[i + 1].created_at]_vars

C6_Witness ==
    /\ Is(last, "GET", 200)
    /\ Len(last.rows) >= 2
    /\ last.rows[1].created_at > last.rows[2].created_at

-----------------------------------------------------------------------------
(* C7 *)

C7_Order ==
    /\ pc = "probe" /\ pc' # "probe" =>
          \/ pc' = "create"
          \/ pc' = "sleep" /\ retries' = retries - 1
    /\ pc = "sleep" /\ pc' # "sleep" =>
          pc' = (IF retries = 0 THEN "create" ELSE "probe")
    /\ pc = "create" /\ pc' # "create" => pc' = "listen"
    /\ pc = "listen" /\ pc' # "listen" => pc' = "serving"
    /\ pc = "serving" => pc' = "serving"

\* C7: the probe runs at most 5 times, a success ends the loop, five
\* failures end it too; then createTable runs, then the server listens,
\* whether the probes or the table creation failed or not; and the server
\* does get to listen.
C7_Startup ==
    /\ [](pc = "probe" => retries \in 1..RetryCount)
    /\ [](pc = "sleep" => retries \in 0..(RetryCount - 1))
    /\ [][C7_Order]_vars
    /\ <>(pc = "serving")

\* listening without a table: the table creation failed
C7_Witness == pc = "serving" /\ ~tableExists

-----------------------------------------------------------------------------
(* C8 *)

\* C8: a toggle and a delete in flight together on an existing id, with no
\* other request on that id, end in one of two ways: the delete ran first,
\* answered 200 with the row as it was, and the toggle answered 404; or the
\* toggle ran first, answered 200 with the flag negated, and the delete
\* answered 200 with the negated flag.  The row is gone either way.
C8_Race ==
    race.ph = "done" =>
        /\ race.id \notin Ids(table)
        /\ \/ /\ race.first = "delete"
              /\ race.del = [status |-> 200, flag |-> race.orig]
              /\ race.tog.status = 404
           \/ /\ race.first = "toggle"
              /\ race.tog = [status |-> 200, flag |-> ~race.orig]
              /\ race.del = [status |-> 200, flag |-> ~race.orig]

C8_Witness == race.ph = "done" /\ race.first = "delete" /\ race.tog.status = 404

C8_WitnessToggleFirst == race.ph = "done" /\ race.first = "toggle"

-----------------------------------------------------------------------------
(* C9 *)

\* C9: no row has an empty or blank name, and no two rows have the same id.
C9_Rows ==
    /\ \A r \in table : r.name # <<>> /\ ~AllBlank(r.name)
    /\ \A r1, r2 \in table : r1.id = r2.id => r1 = r2

\* a posted row beside the seed rows
C9_Witness == SeedRows \subseteq table /\ table # SeedRows

-----------------------------------------------------------------------------
(* C10 *)

C10_ToggledBy(c, r) ==
    /\ Answered(c) /\ pending[c].op = "PATCH" /\ Is(last', "PATCH", 200)
    /\ r \in Named(table, pending[c].id)
    /\ \E q \in table' :
          /\ q.id = r.id /\ q.name = r.name /\ q.created_at = r.created_at
          /\ q.is_in_fridge # r.is_in_fridge

C10_DeletedBy(c, r) ==
    /\ Answered(c) /\ pending[c].op = "DELETE" /\ Is(last', "DELETE", 200)
    /\ r \in Named(table, pending[c].id)
    /\ r.id \notin Ids(table')

\* C10: a row changes only by a toggle of its id, which changes its
\* is_in_fridge and nothing else, and leaves only by a delete of its id; a
\* toggle adds and removes no row.
C10_Frame ==
    [][/\ \A r \in table :
             \/ r \in table'
             \/ \E c \in Clients : C10_ToggledBy(c, r) \/ C10_DeletedBy(c, r)
       /\ \A c \in Clients :
             (Answered(c) /\ pending[c].op = "PATCH") =>
                 /\ Ids(table') = Ids(table)
                 /\ Cardinality(table') = Cardinality(table)]_vars

\* a toggle answered 200 while the table held another row
C10_Witness == Is(last, "PATCH", 200) /\ Cardinality(table) >= 2

====
